---- MODULE Spec2Model ----
(***************************************************************************)
(* Model of src/main.go: the "mirage tank" image builder.                  *)
(*                                                                         *)
(* A raster is a record [kind, rect, pix]: rect is the image.Rectangle of  *)
(* its bounds and pix the row-major sequence of its pixels.  Pixels of an  *)
(* RGBA raster are 8-bit <<r, g, b>> triples (sources are opaque), pixels  *)
(* of an RGBA64 raster are 16-bit triples, pixels of a Gray raster are     *)
(* bytes, and pixels of an NRGBA raster are <<r, g, b, a>>.                *)
(*                                                                         *)
(* Build is a straight-line procedure; pc is its position.  log.Fatal     *)
(* ends the process with os.Exit(1) without running deferred calls.        *)
(***************************************************************************)
EXTENDS Integers, Sequences, FiniteSets, TLC

VARIABLES pc, shrink, fileA, fileB, imgA, imgB, grayImgA, grayImgB,
          linearDodge, divided, finalImage, outputFile, fatal

vars == <<pc, shrink, fileA, fileB, imgA, imgB, grayImgA, grayImgB,
          linearDodge, divided, finalImage, outputFile, fatal>>

----------------------------------------------------------------------------
(* Bounds of the model *)

\* widest source raster of the driver specification (sources are one row)
MaxW == 2

----------------------------------------------------------------------------
(* Numeric helpers *)

\* largest uint8
MaxUint8 == 255

\* shrink and ratio are float64 in the code; the model keeps them as a
\* numerator over this denominator (halves are exact in float64)
Den == 2

\* Go's int(f) and uint8(f) conversions of an in-range float n/Den:
\* truncation toward zero
Trunc(n) == IF n >= 0 THEN n \div Den ELSE -((-n) \div Den)

max(a, b) == IF a > b THEN a ELSE b

min(a, b) == IF a < b THEN a ELSE b

clamp(value, lo, hi) == IF value < lo THEN lo ELSE IF value > hi THEN hi ELSE value

\* uint8(v) of an int
Uint8(v) == v % 256

\* x >> 8
Shr8(x) == x \div 256

----------------------------------------------------------------------------
(* Rasters *)

\* image.Rect: a rectangle is stored with Min <= Max on both axes
Rect(x0, y0, x1, y1) ==
    [minX |-> min(x0, x1), minY |-> min(y0, y1),
     maxX |-> max(x0, x1), maxY |-> max(y0, y1)]

Dx(r) == r.maxX - r.minX

Dy(r) == r.maxY - r.minY

NPix(r) == Dx(r) * Dy(r)

\* a nil image
NoImage == [kind |-> "nil", rect |-> Rect(0, 0, 0, 0), pix |-> << >>]

\* img.At(x, y).RGBA(): the 16-bit samples of a pixel; an 8-bit channel v
\* of an image.RGBA reads as v | v<<8
RGBA16(kind, p) ==
    IF kind = "RGBA64" THEN p ELSE <<p[1] * 257, p[2] * 257, p[3] * 257>>

----------------------------------------------------------------------------
(* Pixel stages *)

\* variant: the mean of the three channels instead of (max + min) / 2
DesaturateLuma(r, g, b) == Uint8((Shr8(r) + Shr8(g) + Shr8(b)) \div 3)

DesaturatePixel(r, g, b) ==
    LET maxVal == Shr8(max(max(r, g), b))
        minVal == Shr8(min(min(r, g), b))
    IN  Uint8((maxVal + minVal) \div 2)

\* every stage loops over the bounds of its (first) operand and fills a
\* fresh raster over the same bounds
Desaturate(img) ==
    [kind |-> "Gray", rect |-> img.rect,
     pix |-> [i \in 1..NPix(img.rect) |->
                 LET s == RGBA16(img.kind, img.pix[i])
                 IN  DesaturatePixel(s[1], s[2], s[3])]]

\* variant: rounds to nearest instead of truncating
AdjustLightnessRounded(gray, ratio) ==
    IF ratio > 0
    THEN Uint8(Trunc(gray * (Den - ratio) + MaxUint8 * ratio + 1))
    ELSE Uint8(Trunc(gray * (Den + ratio) + 1))

\* ratio is the numerator of ratio/Den
AdjustLightnessPixel(gray, ratio) ==
    IF ratio > 0
    THEN Uint8(Trunc(gray * (Den - ratio) + MaxUint8 * ratio))
    ELSE Uint8(Trunc(gray * (Den + ratio)))

AdjustLightness(img, ratio) ==
    [kind |-> "Gray", rect |-> img.rect,
     pix |-> [i \in 1..NPix(img.rect) |-> AdjustLightnessPixel(img.pix[i], ratio)]]

\* variant: leaves the level as it is
InvertMissing(gray) == gray

InvertPixel(gray) == Uint8(MaxUint8 - gray)

Invert(img) ==
    [kind |-> "Gray", rect |-> img.rect,
     pix |-> [i \in 1..NPix(img.rect) |-> InvertPixel(img.pix[i])]]

\* variant: averages the operands instead of adding them
LinearDodgeHalved(grayX, grayY) == Uint8(clamp((grayX + grayY) \div 2, 0, MaxUint8))

LinearDodgePixel(grayX, grayY) == Uint8(clamp(grayX + grayY, 0, MaxUint8))

LinearDodgeBlend(imgX, imgY) ==
    [kind |-> "Gray", rect |-> imgX.rect,
     pix |-> [i \in 1..NPix(imgX.rect) |-> LinearDodgePixel(imgX.pix[i], imgY.pix[i])]]

\* variant: divisor and dividend exchanged
DivideSwapped(grayX, grayY) ==
    IF grayY = 0
    THEN MaxUint8
    ELSE Uint8(clamp((grayX * MaxUint8) \div grayY, 0, MaxUint8))

\* variant: divides before it multiplies
DivideFirst(grayX, grayY) ==
    IF grayX = 0
    THEN MaxUint8
    ELSE Uint8(clamp((grayY \div grayX) * MaxUint8, 0, MaxUint8))

DividePixel(grayX, grayY) ==
    IF grayX = 0
    THEN MaxUint8
    ELSE Uint8(clamp((grayY * MaxUint8) \div grayX, 0, MaxUint8))

DivideBlend(imgX, imgY) ==
    [kind |-> "Gray", rect |-> imgX.rect,
     pix |-> [i \in 1..NPix(imgX.rect) |-> DividePixel(imgX.pix[i], imgY.pix[i])]]

\* variant: gray and alpha exchanged
AddMaskSwapped(gray, alpha) == <<alpha, alpha, alpha, gray>>

AddMaskPixel(gray, alpha) == <<gray, gray, gray, alpha>>

AddMask(imgX, imgY) ==
    [kind |-> "NRGBA", rect |-> imgX.rect,
     pix |-> [i \in 1..NPix(imgX.rect) |-> AddMaskPixel(imgX.pix[i], imgY.pix[i])]]

----------------------------------------------------------------------------
(* The driver: Build *)

\* the ratios Build passes to AdjustLightness, over Den: +0.5 and -0.5
LightenRatio == 1

DarkenRatio == -1

\* variant: the output is created before the sources are read
StepOrderCreateFirst ==
    <<"openA", "create", "openB", "decodeA", "decodeB", "resize", "desaturate",
      "adjust", "dodge", "divide", "mask", "encode", "done">>

\* the calls of Build in program order
StepOrder ==
    <<"openA", "openB", "decodeA", "decodeB", "resize", "desaturate",
      "adjust", "dodge", "divide", "mask", "create", "encode", "done">>

StepIndex(p) == CHOOSE i \in 1..Len(StepOrder) : StepOrder[i] = p

After(p) == StepOrder[StepIndex(p) + 1]

\* the pixels of the driver's source rasters
Pixels == {<<0, 0, 0>>, <<255, 255, 255>>, <<255, 0, 0>>}

\* a decoded source: one row of w pixels with its origin at (0, 0)
SourceRasters ==
    UNION {{[kind |-> "RGBA", rect |-> Rect(0, 0, w, 1), pix |-> px] :
                px \in [1..w -> Pixels]} : w \in 1..MaxW}

\* what a source path holds: nothing, bytes that are no image, or an image
SourceFiles ==
    {[exists |-> FALSE, valid |-> FALSE, img |-> NoImage],
     [exists |-> TRUE, valid |-> FALSE, img |-> NoImage]}
    \cup {[exists |-> TRUE, valid |-> TRUE, img |-> r] : r \in SourceRasters}

\* shrink factors, over Den: -1, -0.5, 0, 0.5, 1
Shrinks == {-2, -1, 0, 1, 2}

\* the target path before the run: no file, or a file of an earlier run
OutputFiles ==
    {[state |-> "absent", img |-> NoImage], [state |-> "old", img |-> NoImage]}

\* resize: a fresh RGBA raster over image.Rect(0, 0, width, height); the
\* resampler copies the pixels when the size is unchanged and otherwise
\* produces some pixels
resize(img, width, height) ==
    LET r == Rect(0, 0, width, height)
    IN  IF Dx(r) = Dx(img.rect) /\ Dy(r) = Dy(img.rect)
        THEN {[kind |-> "RGBA", rect |-> r, pix |-> img.pix]}
        ELSE {[kind |-> "RGBA", rect |-> r, pix |-> px] :
                  px \in [1..NPix(r) -> Pixels]}

Init ==
    /\ pc = StepOrder[1]
    /\ shrink \in Shrinks
    /\ fileA \in SourceFiles
    /\ fileB \in SourceFiles
    /\ imgA = NoImage
    /\ imgB = NoImage
    /\ grayImgA = NoImage
    /\ grayImgB = NoImage
    /\ linearDodge = NoImage
    /\ divided = NoImage
    /\ finalImage = NoImage
    /\ outputFile \in OutputFiles
    /\ fatal = "none"

\* log.Fatal(err): the process exits with status 1 at once
Fatal(call) ==
    /\ pc' = "exit1"
    /\ fatal' = call

OpenA ==
    /\ pc = "openA"
    /\ IF fileA.exists
       THEN pc' = After("openA") /\ UNCHANGED fatal
       ELSE Fatal("os.Open")
    /\ UNCHANGED <<shrink, fileA, fileB, imgA, imgB, grayImgA, grayImgB,
                   linearDodge, divided, finalImage, outputFile>>

OpenB ==
    /\ pc = "openB"
    /\ IF fileB.exists
       THEN pc' = After("openB") /\ UNCHANGED fatal
       ELSE Fatal("os.Open")
    /\ UNCHANGED <<shrink, fileA, fileB, imgA, imgB, grayImgA, grayImgB,
                   linearDodge, divided, finalImage, outputFile>>

DecodeA ==
    /\ pc = "decodeA"
    /\ IF fileA.valid
       THEN pc' = After("decodeA") /\ imgA' = fileA.img /\ UNCHANGED fatal
       ELSE Fatal("image.Decode") /\ UNCHANGED imgA
    /\ UNCHANGED <<shrink, fileA, fileB, imgB, grayImgA, grayImgB,
                   linearDodge, divided, finalImage, outputFile>>

DecodeB ==
    /\ pc = "decodeB"
    /\ IF fileB.valid
       THEN pc' = After("decodeB") /\ imgB' = fileB.img /\ UNCHANGED fatal
       ELSE Fatal("image.Decode") /\ UNCHANGED imgB
    /\ UNCHANGED <<shrink, fileA, fileB, imgA, grayImgA, grayImgB,
                   linearDodge, divided, finalImage, outputFile>>

Resize ==
    /\ pc = "resize"
    /\ LET width == Trunc(imgA.rect.maxX * shrink)
           height == Trunc(imgA.rect.maxY * shrink)
       IN  /\ imgA' \in resize(imgA, width, height)
           /\ imgB' \in resize(imgB, width, height)
    /\ pc' = After("resize")
    /\ UNCHANGED <<shrink, fileA, fileB, grayImgA, grayImgB,
                   linearDodge, divided, finalImage, outputFile, fatal>>

DesaturateStep ==
    /\ pc = "desaturate"
    /\ grayImgA' = Desaturate(imgA)
    /\ grayImgB' = Desaturate(imgB)
    /\ pc' = After("desaturate")
    /\ UNCHANGED <<shrink, fileA, fileB, imgA, imgB,
                   linearDodge, divided, finalImage, outputFile, fatal>>

AdjustStep ==
    /\ pc = "adjust"
    /\ imgA' = Invert(AdjustLightness(grayImgA, LightenRatio))
    /\ imgB' = AdjustLightness(grayImgB, DarkenRatio)
    /\ pc' = After("adjust")
    /\ UNCHANGED <<shrink, fileA, fileB, grayImgA, grayImgB,
                   linearDodge, divided, finalImage, outputFile, fatal>>

DodgeStep ==
    /\ pc = "dodge"
    /\ linearDodge' = LinearDodgeBlend(imgA, imgB)
    /\ pc' = After("dodge")
    /\ UNCHANGED <<shrink, fileA, fileB, imgA, imgB, grayImgA, grayImgB,
                   divided, finalImage, outputFile, fatal>>

DivideStep ==
    /\ pc = "divide"
    /\ divided' = DivideBlend(linearDodge, imgB)
    /\ pc' = After("divide")
    /\ UNCHANGED <<shrink, fileA, fileB, imgA, imgB, grayImgA, grayImgB,
                   linearDodge, finalImage, outputFile, fatal>>

MaskStep ==
    /\ pc = "mask"
    /\ finalImage' = AddMask(divided, linearDodge)
    /\ pc' = After("mask")
    /\ UNCHANGED <<shrink, fileA, fileB, imgA, imgB, grayImgA, grayImgB,
                   linearDodge, divided, outputFile, fatal>>

\* os.Create: creates the file or truncates the one that is there
Create ==
    /\ pc = "create"
    /\ \E ok \in BOOLEAN :
          IF ok
          THEN /\ outputFile' = [state |-> "created", img |-> NoImage]
               /\ pc' = After("create")
               /\ UNCHANGED fatal
          ELSE Fatal("os.Create") /\ UNCHANGED outputFile
    /\ UNCHANGED <<shrink, fileA, fileB, imgA, imgB, grayImgA, grayImgB,
                   linearDodge, divided, finalImage>>

\* png.Encode: rejects an image without pixels before it writes anything;
\* a write can fail part-way
Encode ==
    /\ pc = "encode"
    /\ IF NPix(finalImage.rect) = 0
       THEN Fatal("png.Encode") /\ UNCHANGED outputFile
       ELSE \E ok \in BOOLEAN :
              IF ok
              THEN /\ outputFile' = [state |-> "png", img |-> finalImage]
                   /\ pc' = After("encode")
                   /\ UNCHANGED fatal
              ELSE /\ outputFile' = [state |-> "partial", img |-> NoImage]
                   /\ Fatal("png.Encode")
    /\ UNCHANGED <<shrink, fileA, fileB, imgA, imgB, grayImgA, grayImgB,
                   linearDodge, divided, finalImage>>

Next ==
    \/ OpenA
    \/ OpenB
    \/ DecodeA
    \/ DecodeB
    \/ Resize
    \/ DesaturateStep
    \/ AdjustStep
    \/ DodgeStep
    \/ DivideStep
    \/ MaskStep
    \/ Create
    \/ Encode

Spec == Init /\ [][Next]_vars

----------------------------------------------------------------------------
(* The pixel stages of Build on single pixels *)

\* a 1x1 raster of one pixel
OnePixel(kind, p) == [kind |-> kind, rect |-> Rect(0, 0, 1, 1), pix |-> <<p>>]

Bytes == 0..MaxUint8

PipeNext ==
    \/ DesaturateStep
    \/ AdjustStep
    \/ DodgeStep
    \/ DivideStep
    \/ MaskStep

\* Build at scale 1 after the resize of two 1x1 gray sources, for every
\* pair of gray levels
PipeInit ==
    /\ pc = "desaturate"
    /\ shrink = Den
    /\ \E a \in Bytes, b \in Bytes :
          /\ imgA = OnePixel("RGBA", <<a, a, a>>)
          /\ imgB = OnePixel("RGBA", <<b, b, b>>)
    /\ fileA = [exists |-> TRUE, valid |-> TRUE, img |-> imgA]
    /\ fileB = [exists |-> TRUE, valid |-> TRUE, img |-> imgB]
    /\ grayImgA = NoImage
    /\ grayImgB = NoImage
    /\ linearDodge = NoImage
    /\ divided = NoImage
    /\ finalImage = NoImage
    /\ outputFile = [state |-> "absent", img |-> NoImage]
    /\ fatal = "none"

SpecPipe == PipeInit /\ [][PipeNext]_vars

\* 16-bit samples around the byte boundaries
Samples == {hi * 256 + lo : hi \in {0, 1, 127, 128, 254, 255}, lo \in {0, 1, 255}}

\* Desaturate on one pixel of 16-bit samples, or on one 8-bit gray pixel
DesatInit ==
    /\ pc = "desaturate"
    /\ shrink = Den
    /\ \/ \E r \in Samples, g \in Samples, b \in Samples :
             imgA = OnePixel("RGBA64", <<r, g, b>>)
       \/ \E v \in Bytes : imgA = OnePixel("RGBA", <<v, v, v>>)
    /\ imgB = OnePixel("RGBA", <<0, 0, 0>>)
    /\ fileA = [exists |-> TRUE, valid |-> TRUE, img |-> imgA]
    /\ fileB = [exists |-> TRUE, valid |-> TRUE, img |-> imgB]
    /\ grayImgA = NoImage
    /\ grayImgB = NoImage
    /\ linearDodge = NoImage
    /\ divided = NoImage
    /\ finalImage = NoImage
    /\ outputFile = [state |-> "absent", img |-> NoImage]
    /\ fatal = "none"

SpecDesat == DesatInit /\ [][PipeNext]_vars

\* DivideBlend on every pair of bytes
DivideInit ==
    /\ pc = "divide"
    /\ shrink = Den
    /\ \E x \in Bytes, y \in Bytes :
          /\ linearDodge = OnePixel("Gray", x)
          /\ imgB = OnePixel("Gray", y)
    /\ imgA = NoImage
    /\ fileA = [exists |-> TRUE, valid |-> TRUE, img |-> NoImage]
    /\ fileB = [exists |-> TRUE, valid |-> TRUE, img |-> NoImage]
    /\ grayImgA = NoImage
    /\ grayImgB = NoImage
    /\ divided = NoImage
    /\ finalImage = NoImage
    /\ outputFile = [state |-> "absent", img |-> NoImage]
    /\ fatal = "none"

DivideNext ==
    \/ DivideStep
    \/ MaskStep

SpecDivide == DivideInit /\ [][DivideNext]_vars

----------------------------------------------------------------------------
(* Properties *)

\* the 8-bit level of the 1x1 gray source held by a file
Level(file) == file.img.pix[1][1]

\* the output pixel once the pixel stages of a 1x1 run are over
OutPixel == finalImage.pix[1]

StagesOver == pc = "create"

Abs(n) == IF n < 0 THEN -n ELSE n

\* an NRGBA pixel (g, g, g, a) seen on a background of gray level bg
Composite(p, bg) == (p[1] * p[4]) \div 255 + (bg * (255 - p[4])) \div 255

\* C1: 1x1 sources at scale 1 give the outputs of test vectors S3, S4, S5:
\* (128, 128) -> (127,127,127,128), (0, 255) -> (127,127,127,255),
\* (255, 0) -> (255,255,255,0)
VectorsS3S4S5 ==
    StagesOver =>
        /\ (Level(fileA) = 128 /\ Level(fileB) = 128) => OutPixel = <<127, 127, 127, 128>>
        /\ (Level(fileA) = 0 /\ Level(fileB) = 255) => OutPixel = <<127, 127, 127, 255>>
        /\ (Level(fileA) = 255 /\ Level(fileB) = 0) => OutPixel = <<255, 255, 255, 0>>

VectorS3Reached ==
    /\ StagesOver
    /\ Level(fileA) = 128
    /\ Level(fileB) = 128
    /\ linearDodge.pix[1] = 128
    /\ OutPixel = <<127, 127, 127, 128>>

\* C2 as stated: black A and black B at scale 1 give (255,255,255,128)
VectorS1AsStated ==
    (StagesOver /\ Level(fileA) = 0 /\ Level(fileB) = 0)
        => OutPixel = <<255, 255, 255, 128>>

\* C2 amended: black A and black B at scale 1 give (0,0,0,128): the divisor
\* L is 128, not 0, so the quotient is 0*255/128 = 0
VectorS1 ==
    (StagesOver /\ Level(fileA) = 0 /\ Level(fileB) = 0)
        => OutPixel = <<0, 0, 0, 128>>

VectorS1Reached ==
    /\ StagesOver
    /\ Level(fileA) = 0
    /\ Level(fileB) = 0
    /\ divided.pix[1] = 0
    /\ OutPixel = <<0, 0, 0, 128>>

\* C3: the output seen on black differs from AdjustLightness(Desaturate(B),
\* -0.5) by at most 2 at every pixel (so the mean absolute error is at most 2)
IllusionOnBlack ==
    StagesOver =>
        \A i \in DOMAIN finalImage.pix :
            Abs(Composite(finalImage.pix[i], 0)
                - AdjustLightness(Desaturate(fileB.img), DarkenRatio).pix[i]) <= 2

IllusionOnBlackInexact ==
    /\ StagesOver
    /\ linearDodge.pix[1] > 0
    /\ Composite(OutPixel, 0) # AdjustLightness(Desaturate(fileB.img), DarkenRatio).pix[1]

\* C4: the output seen on white differs from AdjustLightness(Desaturate(A),
\* +0.5) by at most 2 at every pixel (so the mean absolute error is at most 2)
IllusionOnWhite ==
    StagesOver =>
        \A i \in DOMAIN finalImage.pix :
            Abs(Composite(finalImage.pix[i], 255)
                - AdjustLightness(Desaturate(fileA.img), LightenRatio).pix[i]) <= 2

IllusionOnWhiteInexact ==
    /\ StagesOver
    /\ OutPixel[4] < 255
    /\ Composite(OutPixel, 255) # AdjustLightness(Desaturate(fileA.img), LightenRatio).pix[1]

\* C5 as stated: when the run has ended in a failure, the output path holds
\* no file that this run created or half wrote
NoPartialOutputOnFailure ==
    pc = "exit1" => outputFile.state \notin {"created", "partial"}

\* C6 as stated: with shrink <= 0 the run never gets past the resize and
\* never touches the output path
NonPositiveShrinkRejected ==
    shrink <= 0 =>
        /\ pc \in {"openA", "openB", "decodeA", "decodeB", "resize", "exit1"}
        /\ outputFile \in OutputFiles

\* C7: DivideBlend(X, Y) is 255 where X = 0 and otherwise (Y*255) div X cut
\* at 255; it is Y where X = 255; it is a byte
DivideContract ==
    pc = "mask" =>
        LET x == linearDodge.pix[1]
            y == imgB.pix[1]
            z == divided.pix[1]
            q == (y * 255) \div x
        IN  /\ z \in 0..255
            /\ x = 0 => z = 255
            /\ x # 0 => z = (IF q > 255 THEN 255 ELSE q)
            /\ x = 255 => z = y

DivideByWhiteReached ==
    /\ pc = "mask"
    /\ linearDodge.pix[1] = 255
    /\ imgB.pix[1] = 100
    /\ divided.pix[1] = 100

\* the largest and the smallest element of a non-empty set of integers
Greatest(S) == CHOOSE m \in S : \A n \in S : n <= m

Least(S) == CHOOSE m \in S : \A n \in S : m <= n

\* C8: Desaturate gives (max + min) div 2 over the high bytes of the 16-bit
\* samples, a byte, and v for an 8-bit gray pixel of level v
DesaturateContract ==
    pc = "adjust" =>
        LET s == RGBA16(imgA.kind, imgA.pix[1])
            high == {s[1] \div 256, s[2] \div 256, s[3] \div 256}
            gray == grayImgA.pix[1]
        IN  /\ gray = (Greatest(high) + Least(high)) \div 2
            /\ gray \in 0..255
            /\ imgA.kind = "RGBA" => gray = imgA.pix[1][1]

DesaturateMixedReached ==
    /\ pc = "adjust"
    /\ imgA = OnePixel("RGBA64", <<65535, 256, 32513>>)
    /\ grayImgA.pix[1] = 128

\* C9: with the ratios +0.5 and -0.5 no clamp is active: A' is in 0..128,
\* B' in 0..127, L is the sum A' + B', B' <= L, the quotient is at most 255,
\* the divisor is 0 exactly when A' = B' = 0, and R = G = B
ClampsInactive ==
    /\ pc \in {"dodge", "divide", "mask", "create"} =>
          /\ imgA.pix[1] = 255 - (grayImgA.pix[1] + 255) \div 2
          /\ imgB.pix[1] = grayImgB.pix[1] \div 2
          /\ imgA.pix[1] \in 0..128
          /\ imgB.pix[1] \in 0..127
    /\ pc \in {"divide", "mask", "create"} =>
          /\ linearDodge.pix[1] = imgA.pix[1] + imgB.pix[1]
          /\ imgB.pix[1] <= linearDodge.pix[1]
          /\ linearDodge.pix[1] = 0 <=> (imgA.pix[1] = 0 /\ imgB.pix[1] = 0)
    /\ pc \in {"mask", "create"} =>
          /\ linearDodge.pix[1] > 0 =>
                /\ (imgB.pix[1] * 255) \div linearDodge.pix[1] <= 255
                /\ divided.pix[1] = (imgB.pix[1] * 255) \div linearDodge.pix[1]
          /\ linearDodge.pix[1] = 0 => divided.pix[1] = 255
    /\ pc = "create" =>
          /\ OutPixel[1] = OutPixel[2]
          /\ OutPixel[2] = OutPixel[3]
          /\ OutPixel[4] = imgA.pix[1] + imgB.pix[1]

FullSumReached ==
    /\ StagesOver
    /\ imgA.pix[1] = 128
    /\ imgB.pix[1] = 127
    /\ OutPixel = <<127, 127, 127, 255>>

\* the order of the calls in Build
CallOrder ==
    <<"openA", "openB", "decodeA", "decodeB", "resize", "desaturate",
      "adjust", "dodge", "divide", "mask", "create", "encode", "done">>

\* C10: the calls happen in program order and a failure ends the run; the
\* output path changes only in the create and encode steps, after both
\* sources were opened and decoded and the pixel stages are over; a run
\* that failed to open or decode leaves the output path as it was
OutputLast ==
    [][/\ pc' # pc =>
            \/ pc' = "exit1" /\ pc # "done"
            \/ \E i \in 1..(Len(CallOrder) - 1) :
                  pc = CallOrder[i] /\ pc' = CallOrder[i + 1]
       /\ pc \in {"exit1", "done"} => UNCHANGED vars
       /\ outputFile' # outputFile =>
            /\ pc \in {"create", "encode"}
            /\ fileA.valid /\ fileB.valid
            /\ grayImgA # NoImage /\ grayImgB # NoImage
            /\ linearDodge # NoImage /\ divided # NoImage
            /\ finalImage # NoImage
       /\ fatal' \in {"os.Open", "image.Decode"} => outputFile' \in OutputFiles
      ]_vars

DecodeFailureLeavesOutput ==
    /\ pc = "exit1"
    /\ fatal = "image.Decode"
    /\ fileA.valid
    /\ outputFile.state = "old"

====
